---- MODULE Spec2Model ----
(***************************************************************************)
(* A model of recent_run_check.py: one invocation of the script, from the  *)
(* reading of its configuration to the ran_recently line it prints.        *)
(*                                                                         *)
(* Optional strings (a JSON null, an unset variable, a Python None) are    *)
(* the marker None; optional records and booleans are sequences of length  *)
(* 0 or 1.  Time is counted in ticks of 1/TicksPerSecond second since the  *)
(* instant of T0, so that the fractional part of datetime.now() shows.     *)
(***************************************************************************)
EXTENDS Integers, Sequences, FiniteSets, TLC

VARIABLES
    env,          \* os.environ of the process
    pc,           \* position of the process
    window,       \* main: window
    scope,        \* main: scope
    calls,        \* the HTTP requests sent, in order
    page,         \* get_latest_prior_different_commit_run: the runs listed
    prior,        \* the run the locator returned, <<>> for None
    last_run_id,  \* job_decision: last_run_id
    jobs,         \* get_job_timestamp_in_run: jobs
    ts,           \* the timestamp the decision uses
    age,          \* calculate_age_seconds' result, in ticks
    result,       \* the decision: <<>> before it is taken, <<recent>> after
    details,      \* the details mapping
    summary,      \* log_summary has run
    output,       \* the ran_recently lines printed
    error         \* the exception propagating, None when there is none

vars == <<env, pc, window, scope, calls, page, prior, last_run_id, jobs, ts,
          age, result, details, summary, output, error>>

-----------------------------------------------------------------------------
\* Bounds of the model.

MaxWindow == 1
MaxRuns == 2
MaxJobs == 2
MaxNowTicks == 6
TicksPerSecond == 2

-----------------------------------------------------------------------------
\* Values.

None == "None"
Dash == "-"

T0 == "2024-01-01T00:00:00Z"
T1 == "2024-01-01T00:00:01Z"
T1Offset == "2024-01-01T00:00:01+00:00"
Malformed == "yesterday"

Digit(d) ==
    CASE d = 0 -> "0" [] d = 1 -> "1" [] d = 2 -> "2" [] d = 3 -> "3"
      [] d = 4 -> "4" [] d = 5 -> "5" [] d = 6 -> "6" [] d = 7 -> "7"
      [] d = 8 -> "8" [] d = 9 -> "9"

RECURSIVE NatStr(_)
NatStr(n) == IF n < 10 THEN Digit(n) ELSE NatStr(n \div 10) \o Digit(n % 10)

\* str(n), f"{n}" of an integer
Str(n) == IF n < 0 THEN "-" \o NatStr(-n) ELSE NatStr(n)

\* int(s): <<n>>, or <<>> when int() raises ValueError
ParseInt(s) ==
    LET hit == {n \in -1..(MaxWindow + 1) : Str(n) = s}
    IN  IF hit = {} THEN <<>> ELSE <<CHOOSE n \in hit : TRUE>>

\* str.lower() on the values the configuration takes
Lower(s) ==
    CASE s = "JOB" -> "job"
      [] s = "True" -> "true"
      [] OTHER -> s

\* bool(s) of an optional string
Truthy(s) == s # None /\ s # ""

OrElseSecond(a, b) == IF Truthy(b) THEN b ELSE a

\* a or b
OrElse(a, b) == IF Truthy(a) THEN a ELSE b

-----------------------------------------------------------------------------
\* Timestamp utilities.

\* the instants datetime.fromisoformat accepts, in seconds since T0
IsoInstant ==
    ("2024-01-01T00:00:00+00:00" :> 0) @@ ("2024-01-01T00:00:01+00:00" :> 1)

\* ts.replace("Z", "+00:00")
ReplaceZ(t) ==
    CASE t = T0 -> "2024-01-01T00:00:00+00:00"
      [] t = T1 -> "2024-01-01T00:00:01+00:00"
      [] OTHER -> t

\* parse_utc: <<seconds>>, or <<>> when fromisoformat raises ValueError
parse_utc(t) ==
    IF ReplaceZ(t) \in DOMAIN IsoInstant THEN <<IsoInstant[ReplaceZ(t)]>> ELSE <<>>

\* calculate_age_seconds, in ticks, now being datetime.now(timezone.utc)
calculate_age_seconds(t, now) == now - parse_utc(t)[1] * TicksPerSecond

\* int(age)
IntTrunc(a) ==
    IF a >= 0 THEN a \div TicksPerSecond ELSE -((-a) \div TicksPerSecond)

IsRecentLe(a, w) == a <= w * TicksPerSecond

\* age < window_seconds
IsRecent(a, w) == a < w * TicksPerSecond

-----------------------------------------------------------------------------
\* The environment and the provider's answers.

WindowInputs == {None, "soon"} \cup {Str(n) : n \in 0..MaxWindow}
ScopeInputs == {"workflow", "job", "JOB", "nightly"}
FlagInputs == {"true", "True", "false"}
BranchInputs == {"main", "feature"}
TokenInputs == {None, "ghs_token"}

Environments ==
    [WINDOW_SECONDS : WindowInputs,
     SCOPE : ScopeInputs,
     ALWAYS_FALSE_ON_DEFAULT_BRANCH : FlagInputs,
     GITHUB_REF_NAME : BranchInputs,
     GITHUB_DEFAULT_BRANCH : {"main"},
     GITHUB_TOKEN : TokenInputs,
     GITHUB_RUN_ID : {"500"},
     GITHUB_SHA : {"abc123"},
     GITHUB_JOB : {"build"}]

\* <<started, created>> of a run record
RunStamps ==
    {<<None, None>>, <<"", T1>>, <<None, T1Offset>>, <<T0, T1>>, <<Malformed, T1>>}

\* <<started, created>> of a job record
JobStamps == RunStamps \cup {<<"", Malformed>>}

Runs ==
    {[id |-> i, head_sha |-> s, run_started_at |-> st[1], created_at |-> st[2]] :
        i \in {499, 500}, s \in {"abc123", "def456"}, st \in RunStamps}

Jobs ==
    {[name |-> n, started_at |-> st[1], created_at |-> st[2]] :
        n \in {"build", "Build"}, st \in JobStamps}

SeqsUpTo(S, n) == UNION {[1..k -> S] : k \in 0..n}

RunPages == SeqsUpTo(Runs, MaxRuns)
JobPages == SeqsUpTo(Jobs, MaxJobs)
NowTicks == 0..MaxNowTicks

-----------------------------------------------------------------------------
\* The details mappings.

ReasonGuard == "Default-branch protection active."
ReasonNoPrior == "No prior different-commit workflow run on this branch."
ReasonNoTimestamp == "Prior run had no usable timestamp."
ReasonNoJob == "Prior run did not include a matching job."
ReasonWorkflowRecent == "Recent prior workflow run detected."
ReasonWorkflowOutside == "Prior workflow run is outside the window."
ReasonJobRecent == "Recent prior job run detected."
ReasonJobOutside == "Prior job run is outside the window."

NoDetails == [k \in {} |-> ""]

Details(reason, age_seconds, prior_run_id, prior_timestamp) ==
    ("reason" :> reason) @@ ("age_seconds" :> age_seconds)
        @@ ("prior_run_id" :> prior_run_id) @@ ("prior_timestamp" :> prior_timestamp)

WithoutJobName(d, job_name) == d

\* details["job_name"] = job_name
WithJobName(d, job_name) == d @@ ("job_name" :> job_name)

\* main: the details of the default-branch guard
GuardDetails == Details(ReasonGuard, Dash, Dash, Dash)

-----------------------------------------------------------------------------
\* The pure parts of the decision.

GuardTriggersExact(e) ==
    /\ e.ALWAYS_FALSE_ON_DEFAULT_BRANCH = "true"
    /\ e.GITHUB_REF_NAME = e.GITHUB_DEFAULT_BRANCH

\* main: always_false_default and branch == default_branch
GuardTriggers(e) ==
    /\ Lower(e.ALWAYS_FALSE_ON_DEFAULT_BRANCH) = "true"
    /\ e.GITHUB_REF_NAME = e.GITHUB_DEFAULT_BRANCH

RECURSIVE ScanRunsAnyCommit(_, _, _)
ScanRunsAnyCommit(runs, current_run, current_sha) ==
    IF runs = <<>> THEN <<>>
    ELSE IF Str(Head(runs).id) = current_run
        THEN ScanRunsAnyCommit(Tail(runs), current_run, current_sha)
    ELSE <<Head(runs)>>

\* the scan of get_latest_prior_different_commit_run over the listed runs
RECURSIVE ScanRuns(_, _, _)
ScanRuns(runs, current_run, current_sha) ==
    IF runs = <<>> THEN <<>>
    ELSE LET run == Head(runs)
         IN  IF Str(run.id) = current_run
                 THEN ScanRuns(Tail(runs), current_run, current_sha)
             ELSE IF run.head_sha = current_sha
                 THEN ScanRuns(Tail(runs), current_run, current_sha)
             ELSE <<run>>

\* get_latest_prior_different_commit_run_id: str(prior["id"]) if prior else None
RunIdOf(p) == IF p # <<>> THEN Str(p[1].id) ELSE None

\* workflow_decision: prior.get("run_started_at") or prior.get("created_at")
RunTimestamp(run) == OrElse(run.run_started_at, run.created_at)

\* get_job_timestamp_in_run: job.get("started_at") or job.get("created_at")
JobTimestamp(job) == OrElse(job.started_at, job.created_at)

\* the loop of get_job_timestamp_in_run over the listed jobs
RECURSIVE ScanJobs(_, _)
ScanJobs(js, job_name) ==
    IF js = <<>> THEN None
    ELSE IF Head(js).name = job_name THEN JobTimestamp(Head(js))
    ELSE ScanJobs(Tail(js), job_name)

\* workflow_decision: the details once the age is known
WorkflowDetails(recent, a, run, t) ==
    Details(IF recent THEN ReasonWorkflowRecent ELSE ReasonWorkflowOutside,
            Str(IntTrunc(a)), Str(run.id), t)

\* job_decision: the details once the age is known
JobDetails(recent, a, run_id, t, job_name) ==
    WithJobName(Details(IF recent THEN ReasonJobRecent ELSE ReasonJobOutside,
                        Str(IntTrunc(a)), run_id, t), job_name)

\* __main__: the line printed for main()'s result
OutputLine(r) == "ran_recently=" \o (IF r THEN "true" ELSE "false")

-----------------------------------------------------------------------------
\* The process.

Init ==
    /\ env \in Environments
    /\ pc = "main"
    /\ window = 0
    /\ scope = None
    /\ calls = <<>>
    /\ page = <<>>
    /\ prior = <<>>
    /\ last_run_id = None
    /\ jobs = <<>>
    /\ ts = None
    /\ age = 0
    /\ result = <<>>
    /\ details = NoDetails
    /\ summary = FALSE
    /\ output = <<>>
    /\ error = None

\* an exception leaves main
Raise(e) ==
    /\ pc' = "raised"
    /\ error' = e

\* main, up to the guard: the configuration is read
ReadConfig ==
    /\ pc = "main"
    /\ \/ /\ env.WINDOW_SECONDS = None
          /\ Raise("KeyError")
          /\ UNCHANGED <<window, scope>>
       \/ /\ env.WINDOW_SECONDS # None
          /\ ParseInt(env.WINDOW_SECONDS) = <<>>
          /\ Raise("ValueError")
          /\ UNCHANGED <<window, scope>>
       \/ /\ env.WINDOW_SECONDS # None
          /\ ParseInt(env.WINDOW_SECONDS) # <<>>
          /\ window' = ParseInt(env.WINDOW_SECONDS)[1]
          /\ scope' = Lower(env.SCOPE)
          /\ pc' = "guard"
          /\ UNCHANGED error
    /\ UNCHANGED <<env, calls, page, prior, last_run_id, jobs, ts, age, result,
                   details, summary, output>>

\* main: the default-branch guard
DefaultBranchGuard ==
    /\ pc = "guard"
    /\ \/ /\ GuardTriggers(env)
          /\ result' = <<FALSE>>
          /\ details' = GuardDetails
          /\ pc' = "log_summary"
       \/ /\ ~GuardTriggers(env)
          /\ pc' = "dispatch"
          /\ UNCHANGED <<result, details>>
    /\ UNCHANGED <<env, window, scope, calls, page, prior, last_run_id, jobs, ts,
                   age, summary, output, error>>

ScopeDispatchElseWorkflow ==
    /\ pc = "dispatch"
    /\ pc' = IF scope = "job" THEN "job_decision" ELSE "workflow_decision"
    /\ UNCHANGED <<env, window, scope, calls, page, prior, last_run_id, jobs, ts,
                   age, result, details, summary, output, error>>

\* main: the dispatch on the scope
ScopeDispatch ==
    /\ pc = "dispatch"
    /\ \/ /\ scope = "workflow"
          /\ pc' = "workflow_decision"
          /\ UNCHANGED error
       \/ /\ scope # "workflow"
          /\ scope = "job"
          /\ pc' = "job_decision"
          /\ UNCHANGED error
       \/ /\ scope # "workflow"
          /\ scope # "job"
          /\ Raise("ValueError")
    /\ UNCHANGED <<env, window, scope, calls, page, prior, last_run_id, jobs, ts,
                   age, result, details, summary, output>>

RetryingLocator ==
    /\ pc \in {"workflow_decision", "job_decision"}
    /\ env.GITHUB_TOKEN # None
    /\ calls' = Append(calls, "runs")
    /\ \/ /\ Len(calls) < 2
          /\ UNCHANGED <<pc, page, prior>>
       \/ /\ \E p \in RunPages :
                /\ page' = p
                /\ prior' = ScanRuns(p, env.GITHUB_RUN_ID, env.GITHUB_SHA)
          /\ pc' = IF pc = "workflow_decision" THEN "workflow_located"
                   ELSE "job_located"
    /\ UNCHANGED <<env, window, scope, last_run_id, jobs, ts, age, result,
                   details, summary, output, error>>

\* get_latest_prior_different_commit_run, called by both decisions
get_latest_prior_different_commit_run ==
    /\ pc \in {"workflow_decision", "job_decision"}
    /\ \/ /\ env.GITHUB_TOKEN = None
          /\ Raise("KeyError")
          /\ UNCHANGED <<calls, page, prior>>
       \/ /\ env.GITHUB_TOKEN # None
          /\ calls' = Append(calls, "runs")
          /\ Raise("HTTPError")
          /\ UNCHANGED <<page, prior>>
       \/ /\ env.GITHUB_TOKEN # None
          /\ calls' = Append(calls, "runs")
          /\ \E p \in RunPages :
                /\ page' = p
                /\ prior' = ScanRuns(p, env.GITHUB_RUN_ID, env.GITHUB_SHA)
          /\ pc' = IF pc = "workflow_decision" THEN "workflow_located"
                   ELSE "job_located"
          /\ UNCHANGED error
    /\ UNCHANGED <<env, window, scope, last_run_id, jobs, ts, age, result,
                   details, summary, output>>

\* a decision function returns (recent, d) to main
Decide(recent, d) ==
    /\ result' = <<recent>>
    /\ details' = d
    /\ pc' = "log_summary"
    /\ UNCHANGED error

\* workflow_decision, from the locator's return on
workflow_decision ==
    /\ pc = "workflow_located"
    /\ \/ /\ prior = <<>>
          /\ Decide(FALSE, Details(ReasonNoPrior, Dash, Dash, Dash))
          /\ UNCHANGED <<ts, age>>
       \/ /\ prior # <<>>
          /\ ~Truthy(RunTimestamp(prior[1]))
          /\ Decide(FALSE, Details(ReasonNoTimestamp, Dash, Str(prior[1].id), Dash))
          /\ ts' = RunTimestamp(prior[1])
          /\ UNCHANGED age
       \/ /\ prior # <<>>
          /\ Truthy(RunTimestamp(prior[1]))
          /\ parse_utc(RunTimestamp(prior[1])) = <<>>
          /\ Raise("ValueError")
          /\ ts' = RunTimestamp(prior[1])
          /\ UNCHANGED <<age, result, details>>
       \/ /\ prior # <<>>
          /\ Truthy(RunTimestamp(prior[1]))
          /\ parse_utc(RunTimestamp(prior[1])) # <<>>
          /\ ts' = RunTimestamp(prior[1])
          /\ \E now \in NowTicks :
                age' = calculate_age_seconds(RunTimestamp(prior[1]), now)
          /\ Decide(IsRecent(age', window),
                    WorkflowDetails(IsRecent(age', window), age', prior[1], ts'))
    /\ page' = <<>>
    /\ UNCHANGED <<env, window, scope, calls, prior, last_run_id, jobs, summary,
                   output>>

\* get_latest_prior_different_commit_run_id returns to job_decision
get_latest_prior_different_commit_run_id ==
    /\ pc = "job_located"
    /\ last_run_id' = RunIdOf(prior)
    /\ page' = <<>>
    /\ prior' = <<>>
    /\ pc' = "job_run_id"
    /\ UNCHANGED <<env, window, scope, calls, jobs, ts, age, result, details,
                   summary, output, error>>

\* job_decision, from the locator's return to the return of
\* get_job_timestamp_in_run
job_decision_lookup ==
    /\ pc = "job_run_id"
    /\ \/ /\ ~Truthy(last_run_id)
          /\ Decide(FALSE, WithJobName(Details(ReasonNoPrior, Dash, Dash, Dash),
                                       env.GITHUB_JOB))
          /\ UNCHANGED <<calls, jobs, ts>>
       \/ /\ Truthy(last_run_id)
          /\ calls' = Append(calls, "jobs")
          /\ Raise("HTTPError")
          /\ UNCHANGED <<jobs, ts, result, details>>
       \/ /\ Truthy(last_run_id)
          /\ calls' = Append(calls, "jobs")
          /\ \E js \in JobPages :
                /\ jobs' = js
                /\ ts' = ScanJobs(js, env.GITHUB_JOB)
          /\ pc' = "job_fetched"
          /\ UNCHANGED <<result, details, error>>
    /\ UNCHANGED <<env, window, scope, page, prior, last_run_id, age, summary,
                   output>>

\* job_decision, from the return of get_job_timestamp_in_run on
job_decision ==
    /\ pc = "job_fetched"
    /\ \/ /\ ~Truthy(ts)
          /\ Decide(FALSE, WithJobName(Details(ReasonNoJob, Dash, last_run_id, Dash),
                                       env.GITHUB_JOB))
          /\ UNCHANGED age
       \/ /\ Truthy(ts)
          /\ parse_utc(ts) = <<>>
          /\ Raise("ValueError")
          /\ UNCHANGED <<age, result, details>>
       \/ /\ Truthy(ts)
          /\ parse_utc(ts) # <<>>
          /\ \E now \in NowTicks : age' = calculate_age_seconds(ts, now)
          /\ Decide(IsRecent(age', window),
                    JobDetails(IsRecent(age', window), age', last_run_id, ts,
                               env.GITHUB_JOB))
    /\ jobs' = <<>>
    /\ UNCHANGED <<env, window, scope, calls, page, prior, last_run_id, ts,
                   summary, output>>

\* log_summary, then main returns result
log_summary ==
    /\ pc = "log_summary"
    /\ summary' = TRUE
    /\ pc' = "returned"
    /\ UNCHANGED <<env, window, scope, calls, page, prior, last_run_id, jobs, ts,
                   age, result, details, output, error>>

ExceptOutputNothing(out) == out

\* __main__: the except clause's print
ExceptOutput(out) == Append(out, "ran_recently=false")

\* __main__: the try statement around main()
dunder_main ==
    /\ \/ /\ pc = "returned"
          /\ output' = Append(output, OutputLine(result[1]))
          /\ pc' = "exit"
       \/ /\ pc = "raised"
          /\ output' = ExceptOutput(output)
          /\ pc' = "exit_error"
    /\ UNCHANGED <<env, window, scope, calls, page, prior, last_run_id, jobs, ts,
                   age, result, details, summary, error>>

Next ==
    \/ ReadConfig
    \/ DefaultBranchGuard
    \/ ScopeDispatch
    \/ get_latest_prior_different_commit_run
    \/ workflow_decision
    \/ get_latest_prior_different_commit_run_id
    \/ job_decision_lookup
    \/ job_decision
    \/ log_summary
    \/ dunder_main

Spec == Init /\ [][Next]_vars

-----------------------------------------------------------------------------
\* What the properties below speak of.

\* the guard's condition, read off the environment
GuardActive ==
    /\ env.ALWAYS_FALSE_ON_DEFAULT_BRANCH \in {"true", "True"}
    /\ env.GITHUB_REF_NAME = env.GITHUB_DEFAULT_BRANCH

\* main has taken a decision
Decided == result # <<>>

\* an error left main
Fatal == pc \in {"raised", "exit_error"}

FixedKeys == {"reason", "age_seconds", "prior_run_id", "prior_timestamp"}

\* a listed run that is neither the current run nor at the current revision
PassesFilters(run) ==
    /\ Str(run.id) # env.GITHUB_RUN_ID
    /\ run.head_sha # env.GITHUB_SHA

NoneQualifies(runs) == \A i \in DOMAIN runs : ~PassesFilters(runs[i])

\* r is what the locator owes for the listed runs
FirstQualifying(runs, r) ==
    IF NoneQualifies(runs) THEN r = <<>>
    ELSE \E i \in DOMAIN runs :
            /\ PassesFilters(runs[i])
            /\ \A j \in 1..(i - 1) : ~PassesFilters(runs[j])
            /\ r = <<runs[i]>>

\* started-at when present and non-empty, created-at otherwise
Preferred(started, created) ==
    IF started \notin {None, ""} THEN started ELSE created

\* the seconds since T0 of a well-formed timestamp
SecondsOf(t) == IF t = T0 THEN 0 ELSE 1

WellFormed(t) == t \in {T0, T1, T1Offset}

\* a is an age of the timestamp t at some sampled now
AgeOf(t, a) == \E now \in NowTicks : a = now - SecondsOf(t) * TicksPerSecond

-----------------------------------------------------------------------------
\* C1: in both scopes the decision is recent exactly when a prior
\* different-revision record with a usable timestamp was found and its age is
\* strictly below the window; an age equal to the window is not recent.
C1_RecentIffWithinWindow ==
    (Decided /\ ~GuardActive) =>
        /\ result[1] <=>
              (WellFormed(ts) /\ AgeOf(ts, age) /\ age < window * TicksPerSecond)
        /\ pc = "exit" =>
              (output = <<"ran_recently=true">> <=>
                  (WellFormed(ts) /\ age < window * TicksPerSecond))

C1_Witness ==
    /\ pc = "exit"
    /\ scope = "job"
    /\ WellFormed(ts)
    /\ window > 0
    /\ age = window * TicksPerSecond
    /\ result = <<FALSE>>

\* C2: on the default branch with the guard flag enabled, main decides false
\* and no request is ever sent.
C2_GuardDecidesFalseWithoutCalls ==
    GuardActive =>
        /\ calls = <<>>
        /\ page = <<>> /\ jobs = <<>>
        /\ result # <<TRUE>>
        /\ (scope # None /\ pc # "guard") =>
              /\ result = <<FALSE>>
              /\ error = None
              /\ pc \in {"log_summary", "returned", "exit"}
        /\ pc = "exit" => output = <<"ran_recently=false">>

C2_Witness ==
    /\ GuardActive
    /\ env.ALWAYS_FALSE_ON_DEFAULT_BRANCH = "True"
    /\ scope = "workflow"
    /\ pc = "exit"
    /\ result = <<FALSE>>
    /\ calls = <<>>

\* C3: every execution prints exactly one ran_recently line, none before it
\* ends; when an error leaves main the line is ran_recently=false and it is
\* there once the error has been re-raised.
C3_ExactlyOneOutputLine ==
    /\ Len(output) <= 1
    /\ (pc \in {"exit", "exit_error"}) <=> (Len(output) = 1)
    /\ (error # None) <=> Fatal
    /\ pc = "exit_error" => output = <<"ran_recently=false">>
    /\ pc = "exit" =>
          output = <<IF result[1] THEN "ran_recently=true" ELSE "ran_recently=false">>

C3_Witness ==
    /\ pc = "exit_error"
    /\ error = "HTTPError"
    /\ calls = <<"runs", "jobs">>
    /\ output = <<"ran_recently=false">>

\* C4: the locator returns the first listed run that is neither the current
\* run nor at the current revision, every run before it failing a filter, and
\* None when no listed run qualifies; the decision is then false with the
\* no-prior-run reason, whatever the window.
C4_LocatorReturnsFirstQualifying ==
    [][/\ (pc' \in {"workflow_located", "job_located"} /\ pc' # pc) =>
              FirstQualifying(page', prior')
       /\ (pc = "workflow_located" /\ NoneQualifies(page)) =>
              /\ result' = <<FALSE>>
              /\ details'["reason"] = ReasonNoPrior
              /\ details'["prior_run_id"] = Dash
       /\ (pc = "job_located" /\ NoneQualifies(page)) => last_run_id' = None
       /\ (pc = "job_run_id" /\ last_run_id = None) =>
              /\ result' = <<FALSE>>
              /\ details'["reason"] = ReasonNoPrior
              /\ calls' = calls
      ]_vars

C4_Witness ==
    /\ pc = "workflow_located"
    /\ Len(page) = 2
    /\ page[1].id = 499 /\ page[1].head_sha = env.GITHUB_SHA
    /\ PassesFilters(page[2])
    /\ prior = <<page[2]>>

\* C5: a malformed timestamp on the located run or matched job does not abort
\* the process: it ends decided, with recent false.
C5_MalformedTimestampDecidesFalse ==
    (ts = Malformed /\ pc \in {"exit", "exit_error"}) =>
        (pc = "exit" /\ result = <<FALSE>>)

\* C6: at most two requests are sent, the run listing first and the job
\* listing only in job scope after a prior run was located; a workflow
\* decision rests on exactly one request; after a failed request no other is
\* sent and no decision is taken.
C6_AtMostTwoCallsNoRetry ==
    [][/\ calls' \in {<<>>, <<"runs">>, <<"runs", "jobs">>}
       /\ Len(calls') = 2 => (scope' = "job" /\ Truthy(last_run_id'))
       /\ (scope' = "workflow" /\ Decided' /\ ~GuardActive') => calls' = <<"runs">>
       /\ (Len(calls') > Len(calls) /\ pc' = "raised") => error' = "HTTPError"
       /\ error' = "HTTPError" => (Fatal' /\ result' = <<>> /\ ~summary')
       /\ error = "HTTPError" => calls' = calls
      ]_vars

C6_Witness ==
    /\ pc = "exit"
    /\ calls = <<"runs", "jobs">>
    /\ scope = "job"
    /\ result = <<TRUE>>

\* C7 as stated: every decided state carries the four fixed keys, and
\* job_name whenever the scope is job.
C7_JobNameWheneverScopeIsJob ==
    Decided =>
        DOMAIN details = FixedKeys \cup (IF scope = "job" THEN {"job_name"} ELSE {})

\* C7, amended: every decided state carries the four fixed keys, with the
\* absence marker where no timestamp was used; job_name is carried exactly by
\* the decisions job_decision takes, and the guard's details have the four
\* fixed keys alone, in job scope too.
C7_FixedKeysAndJobNameFromJobDecision ==
    Decided =>
        /\ FixedKeys \subseteq DOMAIN details
        /\ DOMAIN details \subseteq FixedKeys \cup {"job_name"}
        /\ ("job_name" \in DOMAIN details) <=> (scope = "job" /\ ~GuardActive)
        /\ ("job_name" \in DOMAIN details) => details["job_name"] = env.GITHUB_JOB
        /\ Truthy(ts) =>
              /\ details["prior_timestamp"] = ts
              /\ details["age_seconds"] = Str(IntTrunc(age))
              /\ details["prior_run_id"] # Dash
        /\ ~Truthy(ts) =>
              /\ details["prior_timestamp"] = Dash
              /\ details["age_seconds"] = Dash

C7_Witness ==
    /\ pc = "exit"
    /\ GuardActive
    /\ scope = "job"
    /\ DOMAIN details = FixedKeys

\* C8: in job scope the reason "prior run did not include a matching job" is
\* reported exactly when no job of the located run has the current job's name.
C8_NoMatchingJobReasonIsExact ==
    [][(pc = "job_fetched" /\ Decided') =>
          ((details'["reason"] = ReasonNoJob) <=>
              (\A i \in DOMAIN jobs : jobs[i].name # env.GITHUB_JOB))
      ]_vars

\* C9: the timestamp used for the age and reported as prior_timestamp is
\* started-at when present and non-empty, created-at otherwise, for runs and
\* for jobs; a located run with neither gives false with the no-usable-
\* timestamp reason and its id as prior_run_id.
C9_StartedAtElseCreatedAt ==
    [][/\ (pc = "workflow_located" /\ prior # <<>> /\ Decided') =>
              LET t == Preferred(prior[1].run_started_at, prior[1].created_at)
              IN  IF t \in {None, ""}
                  THEN /\ result' = <<FALSE>>
                       /\ details'["reason"] = ReasonNoTimestamp
                       /\ details'["prior_run_id"] = Str(prior[1].id)
                  ELSE /\ details'["prior_timestamp"] = t
                       /\ AgeOf(t, age')
                       /\ details'["prior_run_id"] = Str(prior[1].id)
       /\ (pc = "job_run_id" /\ pc' = "job_fetched") =>
              \/ /\ \A i \in DOMAIN jobs' : jobs'[i].name # env.GITHUB_JOB
                 /\ ts' = None
              \/ \E i \in DOMAIN jobs' :
                    /\ jobs'[i].name = env.GITHUB_JOB
                    /\ \A j \in 1..(i - 1) : jobs'[j].name # env.GITHUB_JOB
                    /\ ts' = Preferred(jobs'[i].started_at, jobs'[i].created_at)
       /\ (pc = "job_fetched" /\ Decided' /\ Truthy(ts)) =>
              /\ details'["prior_timestamp"] = ts
              /\ AgeOf(ts, age')
      ]_vars

C9_Witness ==
    /\ pc = "exit"
    /\ scope = "workflow"
    /\ prior # <<>>
    /\ prior[1].run_started_at = ""
    /\ prior[1].created_at = T1
    /\ details["prior_timestamp"] = T1

\* C10: the scope is dispatched on only after the guard: without the guard an
\* unrecognized scope ends in an error with no request, decision or summary;
\* with the guard the decision is false for every scope, recognized or not.
C10_DispatchAfterGuard ==
    /\ (~GuardActive /\ scope \notin {None, "workflow", "job"}
            /\ pc \notin {"guard", "dispatch"}) =>
          /\ Fatal
          /\ error = "ValueError"
          /\ calls = <<>>
          /\ ~Decided
          /\ details = NoDetails
          /\ ~summary
    /\ (GuardActive /\ scope # None /\ pc # "guard") =>
          /\ result = <<FALSE>>
          /\ details["reason"] = ReasonGuard
          /\ ~Fatal
    /\ pc \in {"dispatch", "workflow_decision", "job_decision"} => ~GuardActive

C10_Witness ==
    /\ GuardActive
    /\ scope = "nightly"
    /\ pc = "exit"
    /\ summary
    /\ result = <<FALSE>>

====
